---- MODULE Spec2Model ----
(***************************************************************************)
(* Rooms/students pipeline: Database (psycopg2 connection in its default   *)
(* transactional mode), DataLoader.load_data, QueryExecutor and main.      *)
(*                                                                         *)
(* Two specifications share the variables:                                 *)
(*   Spec      a client (as the unit tests do) calls connect,              *)
(*             create_schema, load_data and disconnect on one Database;    *)
(*   MainSpec  the control flow of main(): connect, create_schema,         *)
(*             load_data, the four reports, disconnect.                    *)
(***************************************************************************)
EXTENDS Integers, Sequences, FiniteSets, TLC

\* ------------------------------------------------------------------ bounds
MaxRoomId == 2
MaxStudentId == 2
MaxRecs == 2
MaxCalls == 3
MaxBatch == 2
MaxRepeats == 2
MaxStored == 1

\* ------------------------------------------------------------- input data
RoomIds == 1..MaxRoomId
StudentIds == 1..MaxStudentId
RoomNames == {"Room A", "Room B"}
\* JSON null, which psycopg2 adapts to SQL NULL
NULL == "<null>"

RoomKeys == {"id", "name"}
StudentKeys == {"id", "name", "room", "sex", "birthday"}

\* dates are <<year, month, day>>
StudentPayloads ==
    { [name |-> "Alice", sex |-> "F", birthday |-> <<2000, 1, 1>>],
      [name |-> "Bob",   sex |-> "M", birthday |-> <<1998, 1, 1>>] }

\* a JSON object without key k
Drop(rec, k) == [x \in (DOMAIN rec) \ {k} |-> rec[x]]

CompleteRoomRecs == [id : RoomIds, name : RoomNames]
BrokenRoomRecs ==
    { Drop([id |-> 1, name |-> "Room A"], k) : k \in RoomKeys }
NullRoomRecs == { [id |-> 1, name |-> NULL] }
RoomRecs == CompleteRoomRecs \cup BrokenRoomRecs \cup NullRoomRecs

CompleteStudentRecs ==
    { [id |-> i, name |-> p.name, room |-> r, sex |-> p.sex, birthday |-> p.birthday] :
        i \in StudentIds, r \in RoomIds, p \in StudentPayloads }
BrokenStudentRecs ==
    { Drop([id |-> 1, name |-> "Alice", room |-> 1, sex |-> "F",
            birthday |-> <<2000, 1, 1>>], k) : k \in {"room"} }
StudentRecs == CompleteStudentRecs \cup BrokenStudentRecs

Today0 == <<2024, 6, 15>>
Todays == {Today0}

SeqsUpTo(S, n) == UNION { [1..k -> S] : k \in 0..n }

\* what a path names: a JSON array, no file, or a file that is not JSON
Source(kind, data) == [kind |-> kind, data |-> data]
Unreadable == { Source("missing", <<>>), Source("invalid", <<>>) }
RoomSources == { Source("json", d) : d \in SeqsUpTo(RoomRecs, MaxRecs) } \cup Unreadable
StudentSources == { Source("json", d) : d \in SeqsUpTo(StudentRecs, MaxRecs) } \cup Unreadable

\* ------------------------------------------------------------------ state
VARIABLES
    connection,   \* Database.connection: "none" | "open" | "closed"
    cursor,       \* Database.cursor:     "none" | "open" | "closed"
    txn,          \* the connection's transaction: "idle" | "active" | "aborted"
    schema,       \* durable DDL: "none" | "tables" | "indexed"
    committed,    \* durable rows: [rooms : id -> name, students : id -> row]
    working,      \* rows as the open transaction sees them
    lastOp,       \* the last call made on the objects
    lastErr,      \* the exception that call raised, "" when it returned
    errAt,        \* [batch, n]: the record load_data was at when it raised
    ops,          \* storage operations the last call issued, in order
    orphans,      \* rows inserted by a load_data call that raised, not rolled back
    calls,        \* number of load_data calls so far
    roomsSource,   \* LoadSpec: the rooms source every call of the client names
    studentsSource,\* LoadSpec: the students source every call of the client names
    pc,           \* main(): position in the function
    q,            \* main(): index of the report the loop is at
    format,       \* main(): args.format
    today,        \* CURRENT_DATE of the server
    runlog,       \* main(): calls made on the Database so far
    result,       \* main(): rows of the last report
    files,        \* main(): output files written, name -> content
    output        \* the string the last get_* call returned

vars == <<connection, cursor, txn, schema, committed, working, lastOp, lastErr,
          errAt, ops, orphans, calls, roomsSource, studentsSource, pc, q, format, today,
          runlog, result, files, output>>
dbVars == <<connection, cursor, txn, schema, committed, working>>
mainVars == <<pc, q, format, today, runlog, result, files, output>>
fileVars == <<roomsSource, studentsSource>>

EmptyTable == [x \in {} |-> 0]
EmptyTables == [rooms |-> EmptyTable, students |-> EmptyTable]
NoIds == [rooms |-> {}, students |-> {}]
NoWhere == [batch |-> "", n |-> 0]

\* the Database object and the store behind it, as one value
DB == [connection |-> connection, cursor |-> cursor, txn |-> txn, schema |-> schema,
       committed |-> committed, working |-> working]

\* ------------------------------------------------------------ Database
\* psycopg2 exceptions (subclasses of psycopg2.Error) and Python's own
StorageErrors == {"InterfaceError", "InFailedSqlTransaction", "UndefinedTable",
                  "NotNullViolation", "ForeignKeyViolation", "OperationalError"}

\* what cursor.execute raises before the statement reaches its table, "" if nothing
ExecuteGate(db) ==
    IF db.cursor = "none" THEN "AttributeError"
    ELSE IF db.cursor = "closed" \/ db.connection # "open" THEN "InterfaceError"
    ELSE IF db.txn = "aborted" THEN "InFailedSqlTransaction"
    ELSE ""

\* a statement the server rejects aborts the transaction
Abort(db) == [db EXCEPT !.txn = "aborted"]

Put(table, id, row) == [x \in (DOMAIN table) \cup {id} |-> IF x = id THEN row ELSE table[x]]

Entry(op, n, st, differs, ref) ==
    [op |-> op, n |-> n, st |-> st, differs |-> differs, ref |-> ref]

\* variant: the INSERT without its ON CONFLICT clause
InsertRoomPlain(db, id, name) ==
    LET gate == ExecuteGate(db)
    IN  IF gate # "" THEN [db |-> db, st |-> gate, differs |-> FALSE, ref |-> TRUE]
        ELSE IF db.schema = "none"
            THEN [db |-> Abort(db), st |-> "UndefinedTable", differs |-> FALSE, ref |-> TRUE]
        ELSE IF name = NULL
            THEN [db |-> Abort(db), st |-> "NotNullViolation", differs |-> FALSE, ref |-> TRUE]
        ELSE IF id \in DOMAIN db.working.rooms
            THEN [db |-> Abort(db), st |-> "UniqueViolation", differs |-> FALSE, ref |-> TRUE]
        ELSE [db |-> [db EXCEPT !.txn = "active",
                                !.working.rooms = Put(db.working.rooms, id, name)],
              st |-> "inserted", differs |-> FALSE, ref |-> TRUE]

\* INSERT INTO rooms (id, name) VALUES (%s, %s) ON CONFLICT (id) DO NOTHING
InsertRoom(db, id, name) ==
    LET gate == ExecuteGate(db)
        stored == id \in DOMAIN db.working.rooms
    IN  IF gate # "" THEN [db |-> db, st |-> gate, differs |-> FALSE, ref |-> TRUE]
        ELSE IF db.schema = "none"
            THEN [db |-> Abort(db), st |-> "UndefinedTable", differs |-> FALSE, ref |-> TRUE]
        ELSE IF name = NULL
            THEN [db |-> Abort(db), st |-> "NotNullViolation", differs |-> FALSE, ref |-> TRUE]
        ELSE IF stored
            THEN [db |-> [db EXCEPT !.txn = "active"], st |-> "skipped",
                  differs |-> db.working.rooms[id] # name, ref |-> TRUE]
        ELSE [db |-> [db EXCEPT !.txn = "active",
                                !.working.rooms = Put(db.working.rooms, id, name)],
              st |-> "inserted", differs |-> FALSE, ref |-> TRUE]

StudentRow(name, room_id, sex, birthday) ==
    [name |-> name, room_id |-> room_id, sex |-> sex, birthday |-> birthday]

\* variant: ON CONFLICT (id) DO UPDATE, the stored row takes the new values
InsertStudentOverwriting(db, id, name, room_id, sex, birthday) ==
    LET gate == ExecuteGate(db)
        stored == id \in DOMAIN db.working.students
        row == StudentRow(name, room_id, sex, birthday)
        ref == room_id \in DOMAIN db.working.rooms
    IN  IF gate # "" THEN [db |-> db, st |-> gate, differs |-> FALSE, ref |-> ref]
        ELSE IF db.schema = "none"
            THEN [db |-> Abort(db), st |-> "UndefinedTable", differs |-> FALSE, ref |-> ref]
        ELSE IF ~ref
            THEN [db |-> Abort(db), st |-> "ForeignKeyViolation", differs |-> FALSE, ref |-> ref]
        ELSE [db |-> [db EXCEPT !.txn = "active",
                                !.working.students = Put(db.working.students, id, row)],
              st |-> IF stored THEN "skipped" ELSE "inserted",
              differs |-> stored /\ db.working.students[id] # row, ref |-> ref]

\* variant: a students table without the FOREIGN KEY constraint
InsertStudentUnreferenced(db, id, name, room_id, sex, birthday) ==
    LET gate == ExecuteGate(db)
        stored == id \in DOMAIN db.working.students
        row == StudentRow(name, room_id, sex, birthday)
        ref == room_id \in DOMAIN db.working.rooms
    IN  IF gate # "" THEN [db |-> db, st |-> gate, differs |-> FALSE, ref |-> ref]
        ELSE IF db.schema = "none"
            THEN [db |-> Abort(db), st |-> "UndefinedTable", differs |-> FALSE, ref |-> ref]
        ELSE IF stored
            THEN [db |-> [db EXCEPT !.txn = "active"], st |-> "skipped",
                  differs |-> db.working.students[id] # row, ref |-> ref]
        ELSE [db |-> [db EXCEPT !.txn = "active",
                                !.working.students = Put(db.working.students, id, row)],
              st |-> "inserted", differs |-> FALSE, ref |-> ref]

\* INSERT INTO students (id, name, room_id, sex, birthday) VALUES (...)
\*   ON CONFLICT (id) DO NOTHING, with FOREIGN KEY (room_id) REFERENCES rooms(id)
InsertStudent(db, id, name, room_id, sex, birthday) ==
    LET gate == ExecuteGate(db)
        stored == id \in DOMAIN db.working.students
        row == StudentRow(name, room_id, sex, birthday)
        ref == room_id \in DOMAIN db.working.rooms
    IN  IF gate # "" THEN [db |-> db, st |-> gate, differs |-> FALSE, ref |-> ref]
        ELSE IF db.schema = "none"
            THEN [db |-> Abort(db), st |-> "UndefinedTable", differs |-> FALSE, ref |-> ref]
        ELSE IF stored
            THEN [db |-> [db EXCEPT !.txn = "active"], st |-> "skipped",
                  differs |-> db.working.students[id] # row, ref |-> ref]
        ELSE IF ~ref
            THEN [db |-> Abort(db), st |-> "ForeignKeyViolation", differs |-> FALSE, ref |-> ref]
        ELSE [db |-> [db EXCEPT !.txn = "active",
                                !.working.students = Put(db.working.students, id, row)],
              st |-> "inserted", differs |-> FALSE, ref |-> ref]

\* connection.commit(): COMMIT in an aborted transaction rolls back, without an exception
Commit(db) ==
    IF db.connection = "none" THEN [db |-> db, st |-> "AttributeError"]
    ELSE IF db.connection = "closed" THEN [db |-> db, st |-> "InterfaceError"]
    ELSE IF db.txn = "aborted"
        THEN [db |-> [db EXCEPT !.txn = "idle", !.working = db.committed], st |-> "rolled back"]
    ELSE [db |-> [db EXCEPT !.txn = "idle", !.committed = db.working], st |-> "committed"]

\* ----------------------------------------------------------- DataLoader
\* _read_json: the exception open/json.load raises, "" when the file parses
ReadJson(src) ==
    IF src.kind = "missing" THEN "FileNotFoundError"
    ELSE IF src.kind = "invalid" THEN "JSONDecodeError"
    ELSE ""

Raised(db, err, batch, n, log) ==
    [db |-> db, err |-> err, at |-> [batch |-> batch, n |-> n], ops |-> log]
Returned(db, log) == [db |-> db, err |-> "", at |-> NoWhere, ops |-> log]

RECURSIVE InsertRoomsSkipping(_, _, _, _)
\* variant: a record that lacks a key is passed over and the loop goes on
InsertRoomsSkipping(db, rooms, i, log) ==
    IF i > Len(rooms) THEN Returned(db, log)
    ELSE LET room == rooms[i]
         IN  IF ~(RoomKeys \subseteq DOMAIN room) THEN InsertRoomsSkipping(db, rooms, i + 1, log)
             ELSE LET r == InsertRoom(db, room.id, room.name)
                      log2 == Append(log, Entry("insert_room", i, r.st, r.differs, r.ref))
                  IN  IF r.st \in {"inserted", "skipped"}
                      THEN InsertRoomsSkipping(r.db, rooms, i + 1, log2)
                      ELSE Raised(r.db, r.st, "rooms", i, log2)

RECURSIVE InsertRoomsFrom(_, _, _, _)
\* _insert_rooms from record i on: the loop stops at the first exception
InsertRoomsFrom(db, rooms, i, log) ==
    IF i > Len(rooms) THEN Returned(db, log)
    ELSE LET room == rooms[i]
         IN  IF ~(RoomKeys \subseteq DOMAIN room) THEN Raised(db, "KeyError", "rooms", i, log)
             ELSE LET r == InsertRoom(db, room.id, room.name)
                      log2 == Append(log, Entry("insert_room", i, r.st, r.differs, r.ref))
                  IN  IF r.st \in {"inserted", "skipped"}
                      THEN InsertRoomsFrom(r.db, rooms, i + 1, log2)
                      ELSE Raised(r.db, r.st, "rooms", i, log2)

RECURSIVE InsertStudentsFrom(_, _, _, _)
\* _insert_students from record i on
InsertStudentsFrom(db, students, i, log) ==
    IF i > Len(students) THEN Returned(db, log)
    ELSE LET s == students[i]
         IN  IF ~(StudentKeys \subseteq DOMAIN s) THEN Raised(db, "KeyError", "students", i, log)
             ELSE LET r == InsertStudent(db, s.id, s.name, s.room, s.sex, s.birthday)
                      log2 == Append(log, Entry("insert_student", i, r.st, r.differs, r.ref))
                  IN  IF r.st \in {"inserted", "skipped"}
                      THEN InsertStudentsFrom(r.db, students, i + 1, log2)
                      ELSE Raised(r.db, r.st, "students", i, log2)

\* variant: a commit after each batch
LoadDataCommittingEach(db, rooms_file, students_file) ==
    IF ReadJson(rooms_file) # "" THEN Raised(db, ReadJson(rooms_file), "rooms_file", 0, <<>>)
    ELSE IF ReadJson(students_file) # ""
        THEN Raised(db, ReadJson(students_file), "students_file", 0, <<>>)
    ELSE LET r == InsertRoomsFrom(db, rooms_file.data, 1, <<>>)
             c1 == Commit(r.db)
             log1 == Append(r.ops, Entry("commit", 0, c1.st, FALSE, TRUE))
         IN  IF r.err # "" THEN r
             ELSE IF c1.st \notin {"committed", "rolled back"}
                 THEN Raised(c1.db, c1.st, "commit", 0, log1)
             ELSE LET s == InsertStudentsFrom(c1.db, students_file.data, 1, log1)
                  IN  IF s.err # "" THEN s
                      ELSE LET c == Commit(s.db)
                               log == Append(s.ops, Entry("commit", 0, c.st, FALSE, TRUE))
                           IN  IF c.st \in {"committed", "rolled back"}
                               THEN Returned(c.db, log)
                               ELSE Raised(c.db, c.st, "commit", 0, log)

\* variant: the students file is read only after the rooms have been inserted
LoadDataReadingLate(db, rooms_file, students_file) ==
    IF ReadJson(rooms_file) # "" THEN Raised(db, ReadJson(rooms_file), "rooms_file", 0, <<>>)
    ELSE LET r == InsertRoomsFrom(db, rooms_file.data, 1, <<>>)
         IN  IF r.err # "" THEN r
             ELSE IF ReadJson(students_file) # ""
                 THEN Raised(r.db, ReadJson(students_file), "students_file", 0, r.ops)
             ELSE LET s == InsertStudentsFrom(r.db, students_file.data, 1, r.ops)
                  IN  IF s.err # "" THEN s
                      ELSE LET c == Commit(s.db)
                               log == Append(s.ops, Entry("commit", 0, c.st, FALSE, TRUE))
                           IN  IF c.st \in {"committed", "rolled back"}
                               THEN Returned(c.db, log)
                               ELSE Raised(c.db, c.st, "commit", 0, log)

\* load_data(rooms_file, students_file): both files are read, then the rooms are
\* inserted, then the students, then one commit; any exception is logged and re-raised
LoadDataResult(db, rooms_file, students_file) ==
    IF ReadJson(rooms_file) # "" THEN Raised(db, ReadJson(rooms_file), "rooms_file", 0, <<>>)
    ELSE IF ReadJson(students_file) # ""
        THEN Raised(db, ReadJson(students_file), "students_file", 0, <<>>)
    ELSE LET r == InsertRoomsFrom(db, rooms_file.data, 1, <<>>)
         IN  IF r.err # "" THEN r
             ELSE LET s == InsertStudentsFrom(r.db, students_file.data, 1, r.ops)
                  IN  IF s.err # "" THEN s
                      ELSE LET c == Commit(s.db)
                               log == Append(s.ops, Entry("commit", 0, c.st, FALSE, TRUE))
                           IN  IF c.st \in {"committed", "rolled back"}
                               THEN Returned(c.db, log)
                               ELSE Raised(c.db, c.st, "commit", 0, log)

\* -------------------------------------------------------- QueryExecutor
NumTableStatements == 2
NumIndexStatements == 3
NumSchemaStatements == NumTableStatements + NumIndexStatements

\* Database.execute_query for a statement without parameters (DDL, SELECT),
\* which the server may reject; the exception is logged and re-raised, with no rollback
ExecuteQuery(db, rejected) ==
    LET gate == ExecuteGate(db)
    IN  IF gate # "" THEN [db |-> db, st |-> gate]
        ELSE IF rejected THEN [db |-> Abort(db), st |-> "OperationalError"]
        ELSE [db |-> [db EXCEPT !.txn = "active"], st |-> "ok"]

RECURSIVE RunDDL(_, _, _, _, _)
\* statements k..n of the schema, fail (0: none) being the one the server rejects
RunDDL(db, k, n, fail, log) ==
    IF k > n THEN Returned(db, log)
    ELSE LET r == ExecuteQuery(db, k = fail)
             log2 == Append(log, Entry("ddl", k, r.st, FALSE, TRUE))
         IN  IF r.st = "ok" THEN RunDDL(r.db, k + 1, n, fail, log2)
             ELSE Raised(r.db, r.st, "schema", k, log2)

\* the commit that ends a group of DDL statements
CommitDDL(r, level) ==
    LET c == Commit(r.db)
        log == Append(r.ops, Entry("commit", 0, c.st, FALSE, TRUE))
    IN  IF c.st = "committed"
        THEN Returned([c.db EXCEPT !.schema = IF @ = "indexed" THEN @ ELSE level], log)
        ELSE IF c.st = "rolled back" THEN Returned(c.db, log)
        ELSE Raised(c.db, c.st, "commit", 0, log)

\* create_schema: CREATE TABLE IF NOT EXISTS rooms, students; commit;
\* _create_indexes: three CREATE INDEX IF NOT EXISTS; commit
CreateSchemaResult(db, fail) ==
    LET t == RunDDL(db, 1, NumTableStatements, fail, <<>>)
    IN  IF t.err # "" THEN t
        ELSE LET c == CommitDDL(t, "tables")
             IN  IF c.err # "" THEN c
                 ELSE LET x == RunDDL(c.db, NumTableStatements + 1, NumSchemaStatements,
                                      fail, c.ops)
                      IN  IF x.err # "" THEN x ELSE CommitDDL(x, "indexed")

\* ------------------------------------------------------------- actions
SetDB(db) ==
    /\ connection' = db.connection
    /\ cursor' = db.cursor
    /\ txn' = db.txn
    /\ schema' = db.schema
    /\ committed' = db.committed
    /\ working' = db.working

\* Database.connect on a Database that holds no open connection
ConnectResult(db, ok) ==
    IF ok
    THEN Returned([db EXCEPT !.connection = "open", !.cursor = "open", !.txn = "idle",
                             !.working = db.committed], <<>>)
    ELSE Raised(db, "OperationalError", "connect", 0, <<>>)

\* Database.disconnect: closes the cursor and the connection if they exist;
\* closing the connection discards the open transaction
DisconnectResult(db) ==
    [db EXCEPT !.cursor = IF @ = "none" THEN @ ELSE "closed",
               !.connection = IF @ = "none" THEN @ ELSE "closed",
               !.txn = IF db.connection = "none" THEN @ ELSE "idle",
               !.working = IF db.connection = "none" THEN @ ELSE db.committed]

\* rows of table t present in the transaction after a call and not before it
Inserted(after, before, t) == (DOMAIN after.working[t]) \ (DOMAIN before.working[t])

\* rows a raising load_data left in the open transaction
OrphansAfter(db, r) ==
    IF r.err # ""
    THEN [rooms |-> orphans.rooms \cup Inserted(r.db, db, "rooms"),
          students |-> orphans.students \cup Inserted(r.db, db, "students")]
    ELSE IF r.ops[Len(r.ops)].st = "rolled back" THEN NoIds
    ELSE orphans

\* a call op on the objects with outcome r
Call(op, r) ==
    /\ SetDB(r.db)
    /\ lastOp' = op
    /\ lastErr' = r.err
    /\ errAt' = r.at
    /\ ops' = r.ops

DoConnect(ok) ==
    /\ Call("connect", ConnectResult(DB, ok))
    /\ UNCHANGED <<orphans, calls>>

DoCreateSchema(fail) ==
    /\ Call("create_schema", CreateSchemaResult(DB, fail))
    /\ UNCHANGED <<orphans, calls>>

DoLoadData(rooms_file, students_file) ==
    /\ LET r == LoadDataResult(DB, rooms_file, students_file)
       IN  /\ Call("load_data", r)
           /\ orphans' = OrphansAfter(DB, r)
    /\ calls' = calls + 1

DoDisconnect ==
    /\ Call("disconnect", Returned(DisconnectResult(DB), <<>>))
    /\ orphans' = NoIds
    /\ UNCHANGED calls

\* the client's calls
Connect(ok) ==
    /\ connection \in {"none", "closed"}
    /\ DoConnect(ok)
    /\ UNCHANGED <<fileVars, mainVars>>

LoadData(rooms_file, students_file) ==
    /\ DoLoadData(rooms_file, students_file)
    /\ UNCHANGED <<fileVars, mainVars>>

Disconnect ==
    /\ DoDisconnect
    /\ UNCHANGED <<fileVars, mainVars>>

InitDB ==
    /\ connection = "open"
    /\ cursor = "open"
    /\ txn = "idle"
    /\ schema = "indexed"
    /\ committed = EmptyTables
    /\ working = EmptyTables
    /\ lastOp = ""
    /\ lastErr = ""
    /\ errAt = NoWhere
    /\ ops = <<>>
    /\ orphans = NoIds
    /\ calls = 0
    /\ q = 1
    /\ format = "json"
    /\ today = Today0
    /\ runlog = <<>>
    /\ result = <<>>
    /\ files = EmptyTable
    /\ output = ""

NoSource == Source("json", <<>>)

\* a client's Database after connect and create_schema, before any load
Init ==
    /\ InitDB
    /\ roomsSource = NoSource
    /\ studentsSource = NoSource
    /\ pc = "client"

\* the client calls load_data with any two sources of at most MaxBatch records
ClientInputs ==
    { in \in RoomSources \X StudentSources : Len(in[1].data) + Len(in[2].data) <= MaxBatch }

ClientLoad ==
    /\ calls < MaxCalls
    /\ \E in \in ClientInputs : LoadData(in[1], in[2])

Next ==
    \/ \E ok \in BOOLEAN : Connect(ok)
    \/ ClientLoad
    \/ Disconnect

Spec == Init /\ [][Next]_vars

\* ------------------------------------------------------------ LoadSpec
\* A client that calls load_data(roomsSource, studentsSource) up to MaxRepeats
\* times with the same two sources, on a store that may hold rows of earlier runs.
PartialFns(D, R, n) ==
    UNION { [S -> R] : S \in { T \in SUBSET D : Cardinality(T) <= n } }

StudentRows(rooms) ==
    { StudentRow(p.name, r, p.sex, p.birthday) : r \in rooms, p \in StudentPayloads }

\* durable tables that satisfy the primary and the foreign key
StoredTables ==
    { [rooms |-> r, students |-> s] :
        r \in PartialFns(RoomIds, RoomNames, MaxStored),
        s \in PartialFns(StudentIds, StudentRows(RoomIds), MaxStored) }

ForeignKeyHolds(t) == \A i \in DOMAIN t.students : t.students[i].room_id \in DOMAIN t.rooms

LoadInit ==
    /\ connection = "open"
    /\ cursor = "open"
    /\ txn = "idle"
    /\ schema = "indexed"
    /\ committed \in { t \in StoredTables : ForeignKeyHolds(t) }
    /\ working = committed
    /\ lastOp = ""
    /\ lastErr = ""
    /\ errAt = NoWhere
    /\ ops = <<>>
    /\ orphans = NoIds
    /\ calls = 0
    /\ roomsSource \in RoomSources
    /\ studentsSource \in StudentSources
    /\ pc = "client"
    /\ q = 1
    /\ format = "json"
    /\ today = Today0
    /\ runlog = <<>>
    /\ result = <<>>
    /\ files = EmptyTable
    /\ output = ""

LoadFiles ==
    /\ calls < MaxRepeats
    /\ LoadData(roomsSource, studentsSource)

LoadNext == LoadFiles

LoadSpec == LoadInit /\ [][LoadNext]_vars

\* ------------------------------------------------------ report queries
ReportLimit == 5
\* column values as the driver returns them: int, str, decimal.Decimal (in
\* hundredths); float is what the formatter makes of a Decimal
IntValue(n) == [int |-> n]
StrValue(x) == [str |-> x]
Decimal(h) == [decimal |-> h]
FloatValue(h) == [float |-> h]
IsDecimal(v) == DOMAIN v = {"decimal"}

\* variant: an inner join, rooms without students give no row
LeftJoinMatchedOnly(t) ==
    { [room_id |-> r, name |-> t.rooms[r], sid |-> {s}] :
        <<r, s>> \in { x \in (DOMAIN t.rooms) \X (DOMAIN t.students) :
                         t.students[x[2]].room_id = x[1] } }

\* rooms r LEFT JOIN students s ON r.id = s.room_id; sid = {} is the NULL s.id
LeftJoin(t) ==
    { [room_id |-> r, name |-> t.rooms[r], sid |-> {s}] :
        <<r, s>> \in { x \in (DOMAIN t.rooms) \X (DOMAIN t.students) :
                         t.students[x[2]].room_id = x[1] } }
    \cup
    { [room_id |-> r, name |-> t.rooms[r], sid |-> {}] :
        r \in { x \in DOMAIN t.rooms :
                  \A s \in DOMAIN t.students : t.students[s].room_id # x } }

\* rooms r JOIN students s ON r.id = s.room_id
InnerJoin(t) ==
    { [room_id |-> x[1], name |-> t.rooms[x[1]], sid |-> x[2],
       sex |-> t.students[x[2]].sex, birthday |-> t.students[x[2]].birthday] :
        x \in { y \in (DOMAIN t.rooms) \X (DOMAIN t.students) :
                  t.students[y[2]].room_id = y[1] } }

\* GROUP BY r.id, r.name
GroupKeys(joined) == { <<j.room_id, j.name>> : j \in joined }
Group(joined, g) == { j \in joined : <<j.room_id, j.name>> = g }

DateLess(a, b) ==
    \/ a[1] < b[1]
    \/ a[1] = b[1] /\ a[2] < b[2]
    \/ a[1] = b[1] /\ a[2] = b[2] /\ a[3] < b[3]

\* variant: the difference of the year fields alone
AgeYearsPlain(later, earlier) == later[1] - earlier[1]

\* whole years from earlier to later, earlier <= later: the year fields'
\* difference, less one when later's (month, day) precedes earlier's
AgeYears0(later, earlier) ==
    LET before == \/ later[2] < earlier[2]
                  \/ later[2] = earlier[2] /\ later[3] < earlier[3]
    IN  later[1] - earlier[1] - (IF before THEN 1 ELSE 0)

\* EXTRACT(YEAR FROM AGE(later, earlier)): completed calendar years
AgeYears(later, earlier) ==
    IF DateLess(later, earlier) THEN 0 - AgeYears0(earlier, later)
    ELSE AgeYears0(later, earlier)

MaxDate(S) == CHOOSE d \in S : \A e \in S : ~DateLess(d, e)
MinDate(S) == CHOOSE d \in S : \A e \in S : ~DateLess(e, d)

RECURSIVE SumAges(_, _)
SumAges(rows, now) ==
    IF rows = {} THEN 0
    ELSE LET j == CHOOSE x \in rows : TRUE
         IN  AgeYears(now, j.birthday) + SumAges(rows \ {j}, now)

\* AVG(...)::NUMERIC(10,2), in hundredths, rounded half away from zero
AvgHundredths(sum, n) == (200 * sum + n) \div (2 * n)

\* the orders a result set may come back in: every order when the query has no
\* ORDER BY (a constant key), every order that respects the ascending sort key
\* otherwise; then LIMIT
Orders(rows, key, limit) ==
    LET n == Cardinality(rows)
        m == IF n < limit THEN n ELSE limit
        all == { f \in [1..n -> rows] :
                   /\ \A i, j \in 1..n : i # j => f[i] # f[j]
                   /\ \A i, j \in 1..n : i < j => key[f[i]] <= key[f[j]] }
    IN  { SubSeq(f, 1, m) : f \in all }

Unordered(rows) == [r \in rows |-> 0]

\* get_room_student_count
RoomStudentCount(t) ==
    LET joined == LeftJoin(t)
        rows == { <<IntValue(g[1]), StrValue(g[2]),
                    IntValue(Cardinality({ j \in Group(joined, g) : j.sid # {} }))>> :
                    g \in GroupKeys(joined) }
    IN  Orders(rows, Unordered(rows), Cardinality(rows))

\* variant: the query without its LIMIT
LowestAvgAgeRoomsUnlimited(t, now) ==
    LET joined == InnerJoin(t)
        rows == { <<IntValue(g[1]), StrValue(g[2]),
                    Decimal(AvgHundredths(SumAges(Group(joined, g), now),
                                          Cardinality(Group(joined, g))))>> :
                    g \in GroupKeys(joined) }
        ByAvg == [r \in rows |-> r[3].decimal]
    IN  Orders(rows, ByAvg, Cardinality(rows))

\* get_lowest_avg_age_rooms
LowestAvgAgeRooms(t, now) ==
    LET joined == InnerJoin(t)
        rows == { <<IntValue(g[1]), StrValue(g[2]),
                    Decimal(AvgHundredths(SumAges(Group(joined, g), now),
                                          Cardinality(Group(joined, g))))>> :
                    g \in GroupKeys(joined) }
        ByAvg == [r \in rows |-> r[3].decimal]
    IN  Orders(rows, ByAvg, ReportLimit)

AgeDiff(group) ==
    AgeYears(MaxDate({ j.birthday : j \in group }), MinDate({ j.birthday : j \in group }))

\* variant: the query without its HAVING clause
HighestAgeDiffRoomsAnyDiff(t) ==
    LET joined == InnerJoin(t)
        rows == { <<IntValue(g[1]), StrValue(g[2]), IntValue(AgeDiff(Group(joined, g)))>> :
                    g \in GroupKeys(joined) }
        ByDiffDesc == [r \in rows |-> 0 - r[3].int]
    IN  Orders(rows, ByDiffDesc, ReportLimit)

\* get_highest_age_diff_rooms
HighestAgeDiffRooms(t) ==
    LET joined == InnerJoin(t)
        rows == { <<IntValue(g[1]), StrValue(g[2]), IntValue(AgeDiff(Group(joined, g)))>> :
                    g \in { k \in GroupKeys(joined) : AgeDiff(Group(joined, k)) > 0 } }
        ByDiffDesc == [r \in rows |-> 0 - r[3].int]
    IN  Orders(rows, ByDiffDesc, ReportLimit)

\* variant: HAVING COUNT(s.sex) > 1, without DISTINCT
MixedSexRoomsCountingAll(t) ==
    LET joined == InnerJoin(t)
        rows == { <<IntValue(g[1]), StrValue(g[2])>> :
                    g \in { k \in GroupKeys(joined) : Cardinality(Group(joined, k)) > 1 } }
    IN  Orders(rows, Unordered(rows), Cardinality(rows))

\* get_mixed_sex_rooms
MixedSexRooms(t) ==
    LET joined == InnerJoin(t)
        rows == { <<IntValue(g[1]), StrValue(g[2])>> :
                    g \in { k \in GroupKeys(joined) :
                              Cardinality({ j.sex : j \in Group(joined, k) }) > 1 } }
    IN  Orders(rows, Unordered(rows), Cardinality(rows))

\* ------------------------------------------------------ _format_output
DigitChars == <<"0", "1", "2", "3", "4", "5", "6", "7", "8", "9">>

RECURSIVE NatStr(_)
NatStr(n) == IF n < 10 THEN DigitChars[n + 1] ELSE NatStr(n \div 10) \o DigitChars[(n % 10) + 1]

\* str(int)
IntStr(n) == IF n < 0 THEN "-" \o NatStr(0 - n) ELSE NatStr(n)

\* repr of a float that came from a two-place Decimal: 24.0, 24.5, 24.33
FloatStr(h) ==
    LET a == IF h < 0 THEN 0 - h ELSE h
        frac == a % 100
    IN  (IF h < 0 THEN "-" ELSE "") \o NatStr(a \div 100) \o "." \o
        (IF frac % 10 = 0 THEN NatStr(frac \div 10)
         ELSE DigitChars[(frac \div 10) + 1] \o DigitChars[(frac % 10) + 1])

\* variant: str(value) for a Decimal
CoerceToStr(v) ==
    IF IsDecimal(v)
    THEN StrValue(FloatStr(v.decimal))
    ELSE v

\* float(value) if isinstance(value, Decimal) else value
Coerce(v) == IF IsDecimal(v) THEN FloatValue(v.decimal) ELSE v

\* one dict per row: key.name -> value, in column order
FormattedData(data, columns) ==
    [i \in 1..Len(data) |->
        [k \in 1..(IF Len(columns) < Len(data[i]) THEN Len(columns) ELSE Len(data[i])) |->
            [key |-> columns[k], value |-> Coerce(data[i][k])]]]

JsonValue(v) ==
    IF DOMAIN v = {"int"} THEN IntStr(v.int)
    ELSE IF DOMAIN v = {"float"} THEN FloatStr(v.float)
    ELSE "\"" \o v.str \o "\""

\* str(value)
PyStr(v) ==
    IF DOMAIN v = {"int"} THEN IntStr(v.int)
    ELSE IF DOMAIN v = {"float"} THEN FloatStr(v.float)
    ELSE v.str

RECURSIVE Join(_, _, _)
\* parts[i..] joined by sep
Join(parts, sep, i) ==
    IF i > Len(parts) THEN ""
    ELSE IF i = Len(parts) THEN parts[i]
    ELSE parts[i] \o sep \o Join(parts, sep, i + 1)

\* variant: an emitter that breaks lines inside the brackets of an empty list too
JsonDumpsBare(items) ==
    LET member(m) == "    \"" \o m.key \o "\": " \o JsonValue(m.value)
        object(item) ==
            IF Len(item) = 0 THEN "  {}"
            ELSE "  {\n" \o Join([k \in 1..Len(item) |-> member(item[k])], ",\n", 1) \o "\n  }"
    IN  "[\n" \o Join([i \in 1..Len(items) |-> object(items[i])], ",\n", 1) \o "\n]"

\* json.dumps(formatted_data, indent=2)
JsonDumps(items) ==
    LET member(m) == "    \"" \o m.key \o "\": " \o JsonValue(m.value)
        object(item) ==
            IF Len(item) = 0 THEN "  {}"
            ELSE "  {\n" \o Join([k \in 1..Len(item) |-> member(item[k])], ",\n", 1) \o "\n  }"
    IN  IF Len(items) = 0 THEN "[]"
        ELSE "[\n" \o Join([i \in 1..Len(items) |-> object(items[i])], ",\n", 1) \o "\n]"

\* ET.tostring of <results><record><col>text</col>...</record>...</results>,
\* reparsed and written by minidom toprettyxml(indent="  ", newl="\n")
PrettyXml(items) ==
    LET field(m) ==
            IF PyStr(m.value) = "" THEN "    <" \o m.key \o "/>\n"
            ELSE "    <" \o m.key \o ">" \o PyStr(m.value) \o "</" \o m.key \o ">\n"
        record(item) ==
            IF Len(item) = 0 THEN "  <record/>\n"
            ELSE "  <record>\n" \o Join([k \in 1..Len(item) |-> field(item[k])], "", 1)
                 \o "  </record>\n"
    IN  "<?xml version=\"1.0\" ?>\n" \o
        (IF Len(items) = 0 THEN "<results/>\n"
         ELSE "<results>\n" \o Join([i \in 1..Len(items) |-> record(items[i])], "", 1)
              \o "</results>\n")

FormatOutput(data, columns, output_format) ==
    IF output_format = "json" THEN JsonDumps(FormattedData(data, columns))
    ELSE PrettyXml(FormattedData(data, columns))

\* ------------------------------------------------------------------ main
Formats == {"json", "xml"}
NumReports == 4

\* the queries list of main, in order: title, and the result column labels
ReportName(i) ==
    <<"Room student count", "Lowest age room", "Highest age diff rooms", "Mixed sex rooms">>[i]
ReportColumns(i) ==
    << <<"room_id", "name", "student_count">>, <<"room_id", "name", "avg_age">>,
       <<"room_id", "name", "age_diff">>, <<"room_id", "name">> >>[i]

\* the result sequences query i may return on tables t
ReportResults(i, t, now) ==
    IF i = 1 THEN RoomStudentCount(t)
    ELSE IF i = 2 THEN LowestAvgAgeRooms(t, now)
    ELSE IF i = 3 THEN HighestAgeDiffRooms(t)
    ELSE MixedSexRooms(t)

Ran(op, err) == [op |-> op, err |-> err]

MainInit ==
    /\ connection = "none"
    /\ cursor = "none"
    /\ txn = "idle"
    /\ schema = "none"
    /\ committed = EmptyTables
    /\ working = EmptyTables
    /\ lastOp = ""
    /\ lastErr = ""
    /\ errAt = NoWhere
    /\ ops = <<>>
    /\ orphans = NoIds
    /\ calls = 0
    /\ roomsSource = NoSource
    /\ studentsSource = NoSource
    /\ pc = "connect"
    /\ q = 1
    /\ format \in Formats
    /\ today \in Todays
    /\ runlog = <<>>
    /\ result = <<>>
    /\ files = EmptyTable
    /\ output = ""

\* db.connect(): line 48
MainConnect(ok) ==
    /\ pc = "connect"
    /\ DoConnect(ok)
    /\ runlog' = Append(runlog, Ran("connect", lastErr'))
    /\ pc' = IF lastErr' = "" THEN "create_schema" ELSE "finally"
    /\ UNCHANGED <<fileVars, q, format, today, result, files, output>>

\* variant: db.disconnect() at the end of the try body, not in a finally clause
MainCreateSchemaNoFinally(fail) ==
    /\ pc = "create_schema"
    /\ DoCreateSchema(fail)
    /\ runlog' = Append(runlog, Ran("create_schema", lastErr'))
    /\ pc' = IF lastErr' = "" THEN "load_data" ELSE "done"
    /\ UNCHANGED <<fileVars, q, format, today, result, files, output>>

\* query_executor.create_schema(): line 50
MainCreateSchema(fail) ==
    /\ pc = "create_schema"
    /\ DoCreateSchema(fail)
    /\ runlog' = Append(runlog, Ran("create_schema", lastErr'))
    /\ pc' = IF lastErr' = "" THEN "load_data" ELSE "finally"
    /\ UNCHANGED <<fileVars, q, format, today, result, files, output>>

\* variant: load_data inside a try of its own, the run goes on to the reports
MainLoadDataContinuing(rooms_file, students_file) ==
    /\ pc = "load_data"
    /\ DoLoadData(rooms_file, students_file)
    /\ runlog' = Append(runlog, Ran("load_data", lastErr'))
    /\ pc' = "report"
    /\ UNCHANGED <<fileVars, q, format, today, result, files, output>>

\* loader.load_data(args.rooms, args.students): line 53
MainLoadData(rooms_file, students_file) ==
    /\ pc = "load_data"
    /\ DoLoadData(rooms_file, students_file)
    /\ runlog' = Append(runlog, Ran("load_data", lastErr'))
    /\ pc' = IF lastErr' = "" THEN "report" ELSE "finally"
    /\ UNCHANGED <<fileVars, q, format, today, result, files, output>>

\* one round of the report loop, lines 62-71: the query, the formatting, the
\* file; an exception of any of them is logged and the loop goes on
ReportResult(db, i, rejected, written) ==
    LET r == ExecuteQuery(db, rejected)
        entry == Entry("select", i, r.st, FALSE, TRUE)
    IN  IF r.st # "ok" THEN Raised(r.db, r.st, "report", i, <<entry>>)
        ELSE IF ~written THEN Raised(r.db, "OSError", "report", i, <<entry>>)
        ELSE Returned(r.db, <<entry>>)

FileName(i, output_format) == ReportName(i) \o "." \o output_format

MainReport(rejected, written) ==
    /\ pc = "report"
    /\ \E rows \in ReportResults(q, working, today) :
        LET r == ReportResult(DB, q, rejected, written)
        IN  /\ Call(ReportName(q), r)
            /\ result' = IF r.ops[1].st = "ok" THEN rows ELSE result
            /\ output' = IF r.ops[1].st = "ok"
                         THEN FormatOutput(rows, ReportColumns(q), format)
                         ELSE output
            /\ files' = IF r.err = ""
                        THEN Put(files, FileName(q, format),
                                 FormatOutput(rows, ReportColumns(q), format))
                        ELSE files
            /\ runlog' = Append(runlog, Ran(ReportName(q), r.err))
    /\ q' = IF q < NumReports THEN q + 1 ELSE q
    /\ pc' = IF q < NumReports THEN "report" ELSE "finally"
    /\ UNCHANGED <<orphans, calls, fileVars, format, today>>

\* finally: db.disconnect(): line 75
MainDisconnect ==
    /\ pc = "finally"
    /\ DoDisconnect
    /\ runlog' = Append(runlog, Ran("disconnect", ""))
    /\ pc' = "done"
    /\ UNCHANGED <<fileVars, q, format, today, result, files, output>>

MainNext ==
    \/ \E ok \in BOOLEAN : MainConnect(ok)
    \/ \E fail \in 0..NumSchemaStatements : MainCreateSchema(fail)
    \/ \E rf \in RoomSources, sf \in StudentSources : MainLoadData(rf, sf)
    \/ \E rejected, written \in BOOLEAN : MainReport(rejected, written)
    \/ MainDisconnect

MainSpec == MainInit /\ [][MainNext]_vars

\* ---------------------------------------------------------- ReportSpec
\* A client that calls the get_* methods of QueryExecutor, in any order and up
\* to MaxReportCalls times, on a connected Database whose tables were loaded
\* by earlier runs; the server accepts every query.
MaxSmallRooms == 3
MaxReportRooms == 6
MaxReportCalls == 1

Student(sex, birthday) == [sex |-> sex, birthday |-> birthday]
\* n students of one sex, k of them born a year before the others
Crowd(n, k) ==
    [i \in 1..n |-> Student("M", IF i <= k THEN <<1999, 1, 1>> ELSE <<2000, 1, 1>>)]

\* the students of one room: none; one; two of both sexes born two years
\* apart on the same day; two of one sex born less than a year apart in
\* different years; three with a birthday on and one day after today's month and day
Nobody == <<>>
Single == <<Student("F", <<2000, 1, 1>>)>>
Pair == <<Student("F", <<2000, 1, 1>>), Student("M", <<1998, 1, 1>>)>>
Close == <<Student("M", <<2000, 7, 1>>), Student("M", <<1999, 8, 1>>)>>
Trio ==
    <<Student("F", <<2001, 6, 15>>), Student("M", <<1996, 6, 16>>), Student("M", <<2000, 1, 1>>)>>
Occupants == {Nobody, Single, Pair, Close, Trio}

\* every choice of at most MaxSmallRooms rooms and of their students
SmallProfiles == UNION { [S -> Occupants] : S \in SUBSET (1..MaxSmallRooms) }
\* MaxReportRooms rooms, all with students of both sexes and of different age
WideProfiles ==
    { [r \in 1..MaxReportRooms |-> IF r <= k THEN Trio ELSE Pair] : k \in 0..MaxReportRooms }
\* two rooms of 8 and 13 students whose mean ages, 24.375 and 24.3846...,
\* round to the same two decimals
CrowdedProfile == <<Crowd(8, 3), Crowd(13, 5)>>
Profiles == SmallProfiles \cup WideProfiles \cup {CrowdedProfile}

\* the tables that hold the rooms of a profile and their students
TablesOf(profile) ==
    LET held == UNION { { <<r, i>> : i \in 1..Len(profile[r]) } : r \in DOMAIN profile }
    IN  [rooms |-> [r \in DOMAIN profile |-> IF r % 2 = 1 THEN "Room A" ELSE "Room B"],
         students |->
            [x \in { 100 * y[1] + y[2] : y \in held } |->
                LET o == profile[x \div 100][x % 100]
                IN  StudentRow(IF o.sex = "F" THEN "Alice" ELSE "Bob", x \div 100,
                               o.sex, o.birthday)]]

ReportInit ==
    /\ connection = "open"
    /\ cursor = "open"
    /\ txn = "idle"
    /\ schema = "indexed"
    /\ committed \in { TablesOf(p) : p \in Profiles }
    /\ working = committed
    /\ lastOp = ""
    /\ lastErr = ""
    /\ errAt = NoWhere
    /\ ops = <<>>
    /\ orphans = NoIds
    /\ calls = 0
    /\ roomsSource = NoSource
    /\ studentsSource = NoSource
    /\ pc = "client"
    /\ q = 1
    /\ format \in Formats
    /\ today \in Todays
    /\ runlog = <<>>
    /\ result = <<>>
    /\ files = EmptyTable
    /\ output = ""

\* query_executor.get_*(format): the query, then _format_output of its rows
GetReport(i) ==
    /\ Len(runlog) < MaxReportCalls
    /\ \E rows \in ReportResults(i, working, today) :
        LET r == ReportResult(DB, i, FALSE, TRUE)
        IN  /\ Call(ReportName(i), r)
            /\ result' = rows
            /\ output' = FormatOutput(rows, ReportColumns(i), format)
            /\ runlog' = Append(runlog, Ran(ReportName(i), r.err))
    /\ UNCHANGED <<orphans, calls, fileVars, pc, q, format, today, files>>

ReportNext == \E i \in 1..NumReports : GetReport(i)

ReportSpec == ReportInit /\ [][ReportNext]_vars

\* ---------------------------------------------------------- FormatSpec
\* _format_output applied once to any result set of at most MaxRows rows that
\* has the columns of one of the four queries.
MaxRows == 2

IntColumn == { IntValue(n) : n \in {0, 7, 12} }
NameColumn == { StrValue(x) : x \in {"Room A", "Room B", ""} }
\* NUMERIC(10,2) values 24.00, 24.50, 24.33, 0.05 and -0.50
DecimalColumn == { Decimal(h) : h \in {2400, 2450, 2433, 5, 0 - 50} }

\* the rows a cursor may hold after query i
RowsOf(i) ==
    IF i = 2 THEN IntColumn \X NameColumn \X DecimalColumn
    ELSE IF i = 4 THEN IntColumn \X NameColumn
    ELSE IntColumn \X NameColumn \X IntColumn

FormatInit ==
    /\ connection = "open"
    /\ cursor = "open"
    /\ txn = "active"
    /\ schema = "indexed"
    /\ committed = EmptyTables
    /\ working = EmptyTables
    /\ lastOp = ""
    /\ lastErr = ""
    /\ errAt = NoWhere
    /\ ops = <<>>
    /\ orphans = NoIds
    /\ calls = 0
    /\ roomsSource = NoSource
    /\ studentsSource = NoSource
    /\ pc = "client"
    /\ q \in 1..NumReports
    /\ format \in Formats
    /\ today = Today0
    /\ runlog = <<>>
    /\ result \in SeqsUpTo(RowsOf(q), MaxRows)
    /\ files = EmptyTable
    /\ output = ""

\* self._format_output(results, output_format), cursor.description being that of query q
Format ==
    /\ lastOp = ""
    /\ lastOp' = "_format_output"
    /\ output' = FormatOutput(result, ReportColumns(q), format)
    /\ UNCHANGED <<dbVars, lastErr, errAt, ops, orphans, calls, fileVars,
                   pc, q, format, today, runlog, result, files>>

FormatNext == Format

FormatSpec == FormatInit /\ [][FormatNext]_vars

\* =================================================================
\* Properties
\* =================================================================
RoomsData == roomsSource.data
StudentsData == studentsSource.data
Readable == roomsSource.kind = "json" /\ studentsSource.kind = "json"

CompleteRoom(r) == RoomKeys \subseteq DOMAIN r
CompleteStudent(r) == StudentKeys \subseteq DOMAIN r
DistinctIds(recs) == \A i, j \in 1..Len(recs) : i # j => recs[i].id # recs[j].id
RoomIdsOf(recs) == { recs[i].id : i \in 1..Len(recs) }

\* both sources parse, every record has its keys and non-null values, ids are
\* distinct within each source, and every student's room is in the rooms source
\* or durably stored
ValidSources ==
    /\ Readable
    /\ \A i \in 1..Len(RoomsData) : CompleteRoom(RoomsData[i]) /\ RoomsData[i].name # NULL
    /\ \A i \in 1..Len(StudentsData) : CompleteStudent(StudentsData[i])
    /\ DistinctIds(RoomsData)
    /\ DistinctIds(StudentsData)
    /\ \A i \in 1..Len(StudentsData) :
          StudentsData[i].room \in RoomIdsOf(RoomsData) \cup DOMAIN committed.rooms

\* C1: with valid sources, the first load_data returns without error, and a
\* second load_data with the same two sources returns without error and leaves
\* the rooms and students tables (durable and in the transaction) as the first left them
C1_Idempotent ==
    [][(calls = 1 /\ ValidSources) =>
          /\ lastErr = ""
          /\ lastErr' = ""
          /\ committed' = committed
          /\ working' = working]_vars

C1_Witness ==
    /\ calls = 2
    /\ ValidSources
    /\ lastErr = ""
    /\ Len(RoomsData) = MaxRecs
    /\ Len(StudentsData) = MaxRecs
    /\ \A i \in 1..(Len(ops) - 1) : ops[i].st = "skipped"

\* rows of a table that are stored: those of the open transaction, or the
\* durable ones when the transaction has failed and can only roll back
Live(t) == IF txn = "aborted" THEN committed[t] ELSE working[t]

InsertOp(t) == IF t = "rooms" THEN "insert_room" ELSE "insert_student"
DataOf(t) == IF t = "rooms" THEN RoomsData ELSE StudentsData
RowOf(t, rec) ==
    IF t = "rooms" THEN rec.name
    ELSE StudentRow(rec.name, rec.room, rec.sex, rec.birthday)
\* the first record of the source with the id of record n
FirstWithId(recs, n) ==
    CHOOSE i \in 1..n : /\ "id" \in DOMAIN recs[i]
                        /\ recs[i].id = recs[n].id
                        /\ \A j \in 1..(i - 1) : "id" \in DOMAIN recs[j] => recs[j].id # recs[n].id
\* the statement reached its table: it was not refused for the state of the
\* connection or of the transaction
Executed(e) == e.st \notin {"AttributeError", "InterfaceError", "InFailedSqlTransaction"}
IsDuplicate(t, n) ==
    \/ DataOf(t)[n].id \in DOMAIN Live(t)
    \/ \E j \in 1..(n - 1) : "id" \in DOMAIN DataOf(t)[j] /\ DataOf(t)[j].id = DataOf(t)[n].id

C2_TableStep(t) ==
    /\ \A id \in DOMAIN committed[t] :
          id \in DOMAIN committed'[t] /\ committed'[t][id] = committed[t][id]
    /\ \A id \in (DOMAIN Live(t)) \cap (DOMAIN working'[t]) : working'[t][id] = Live(t)[id]
    /\ \A i \in 1..Len(ops') :
          LET e == ops'[i]
              rec == DataOf(t)[e.n]
          IN  (e.op = InsertOp(t) /\ Executed(e) /\ IsDuplicate(t, e.n) /\ rec.name # NULL) =>
                 /\ e.st = "skipped"
                 /\ working'[t][rec.id] =
                       IF rec.id \in DOMAIN Live(t) THEN Live(t)[rec.id]
                       ELSE RowOf(t, DataOf(t)[FirstWithId(DataOf(t), e.n)])

\* C2: an insert that reaches its table with the id of a stored row (stored by
\* an earlier call or by an earlier record of the batch) is skipped without
\* error, and every stored room and student keeps the field values it had,
\* whatever values the new record carries
C2_SkipNeverOverwrite ==
    [][Readable => C2_TableStep("rooms") /\ C2_TableStep("students")]_vars

C2_Witness ==
    /\ calls = 1
    /\ lastErr = ""
    /\ \E i \in 1..Len(ops) :
          ops[i].op = "insert_room" /\ ops[i].st = "skipped" /\ ops[i].differs
    /\ \E i \in 1..Len(ops) :
          ops[i].op = "insert_student" /\ ops[i].st = "skipped" /\ ops[i].differs /\ ~ops[i].ref

\* student record k names a room id that is neither stored when the call
\* starts nor the id of a record of the rooms source
SourceRoomIds == { RoomsData[i].id : i \in { j \in 1..Len(RoomsData) : "id" \in DOMAIN RoomsData[j] } }
NamesMissingRoom(k) ==
    /\ "room" \in DOMAIN StudentsData[k]
    /\ StudentsData[k].room \notin (DOMAIN Live("rooms")) \cup SourceRoomIds
\* and it is complete, with an id that is not stored when it is inserted
FreshOrphan(k) ==
    /\ CompleteStudent(StudentsData[k])
    /\ NamesMissingRoom(k)
    /\ ~IsDuplicate("students", k)

FirstBroken(recs, keys) ==
    LET Complete(k) == keys \subseteq DOMAIN recs[k]
    IN  IF \E k \in 1..Len(recs) : ~Complete(k)
        THEN CHOOSE k \in 1..Len(recs) : ~Complete(k) /\ \A j \in 1..(k - 1) : Complete(j)
        ELSE 0
FirstBrokenRoom == FirstBroken(RoomsData, RoomKeys)
FirstBrokenStudent == FirstBroken(StudentsData, StudentKeys)
Inserts(op) == { i \in 1..Len(ops) : ops[i].op = op }
AllWent(op) == \A i \in Inserts(op) : ops[i].st \in {"inserted", "skipped"}

\* C5: when a record lacks a required key, load_data raises and commits
\* nothing; no insert is issued for that record or for any record after it,
\* none for students when the record is a room; when the inserts of the
\* records before it all went through, the exception is the KeyError at that record
C5_MissingField ==
    (calls >= 1 /\ Readable) =>
        /\ FirstBrokenRoom # 0 =>
              /\ lastErr # ""
              /\ \A i \in 1..Len(ops) : ops[i].op = "insert_room" /\ ops[i].n < FirstBrokenRoom
              /\ (Len(ops) = FirstBrokenRoom - 1 /\ AllWent("insert_room")) =>
                    lastErr = "KeyError" /\ errAt = [batch |-> "rooms", n |-> FirstBrokenRoom]
        /\ FirstBrokenStudent # 0 =>
              /\ lastErr # ""
              /\ \A i \in 1..Len(ops) : ops[i].op \in {"insert_room", "insert_student"}
              /\ \A i \in Inserts("insert_student") : ops[i].n < FirstBrokenStudent
              /\ (/\ Cardinality(Inserts("insert_room")) = Len(RoomsData)
                  /\ Cardinality(Inserts("insert_student")) = FirstBrokenStudent - 1
                  /\ AllWent("insert_room") /\ AllWent("insert_student")) =>
                    lastErr = "KeyError" /\ errAt = [batch |-> "students", n |-> FirstBrokenStudent]

C5_Witness ==
    /\ calls = 1
    /\ Readable
    /\ FirstBrokenRoom = 2
    /\ Len(StudentsData) > 0
    /\ lastErr = "KeyError"
    /\ Len(ops) = 1 /\ ops[1].st = "inserted"

\* C6: when either source cannot be read or parsed, load_data raises the
\* read error before any insert is issued and leaves the tables and the
\* transaction as they were, also when only the students source is bad
C6_ReadFailure ==
    [][~Readable =>
          /\ lastErr' \in {"FileNotFoundError", "JSONDecodeError"}
          /\ ops' = <<>>
          /\ committed' = committed
          /\ working' = working
          /\ txn' = txn]_vars

C6_Witness ==
    /\ calls = 1
    /\ roomsSource.kind = "json"
    /\ Len(RoomsData) > 0
    /\ \A i \in 1..Len(RoomsData) : CompleteRoom(RoomsData[i]) /\ RoomsData[i].name # NULL
    /\ RoomIdsOf(RoomsData) \cap DOMAIN committed.rooms = {}
    /\ studentsSource.kind = "invalid"
    /\ lastErr = "JSONDecodeError"
    /\ ops = <<>>

\* C3: no row that a failed load_data inserted before it raised is durable,
\* neither when the call ends nor after any later commit on the same connection
C3_Atomicity ==
    /\ \A id \in orphans.rooms : id \notin DOMAIN committed.rooms
    /\ \A id \in orphans.students : id \notin DOMAIN committed.students

\* ------------------------------------------------------------- main's run
Steps(op) == { i \in 1..Len(runlog) : runlog[i].op = op }
Reports == { ReportName(i) : i \in 1..NumReports }
ReportSteps == { i \in 1..Len(runlog) : runlog[i].op \in Reports }
FatalPhases == {"connect", "create_schema", "load_data"}

\* C7: when exactly one report's query is rejected by the storage layer and
\* nothing else goes wrong, the other three reports have their files written
C7_ReportIsolation ==
    pc = "done" =>
        \A k \in 1..NumReports :
            (/\ \A i \in ReportSteps : runlog[i].err # "OSError"
             /\ \E i \in Steps(ReportName(k)) : runlog[i].err = "OperationalError"
             /\ \A j \in (1..NumReports) \ {k} :
                   \A i \in Steps(ReportName(j)) : runlog[i].err # "OperationalError")
            => \A j \in (1..NumReports) \ {k} : FileName(j, format) \in DOMAIN files

\* C8: when connect, create_schema or load_data raised, no report query
\* has been executed and no report file has been written in the run
C8_FatalPhasesAbort ==
    (\E i \in 1..Len(runlog) : runlog[i].op \in FatalPhases /\ runlog[i].err # "") =>
        /\ ReportSteps = {}
        /\ lastOp \notin Reports
        /\ result = <<>>
        /\ DOMAIN files = {}
        /\ pc \in {"finally", "done"}

C8_Witness ==
    /\ pc = "done"
    /\ \E i \in Steps("load_data") : runlog[i].err = "KeyError"
    /\ DOMAIN committed.rooms = {}
    /\ DOMAIN files = {}

\* C9: a run that has left the try body, by its end or by an exception, can
\* call disconnect and has not called it before; when the run has ended
\* disconnect has been called exactly once, after every other storage
\* operation, and a connection that was opened is closed
C9_GuaranteedRelease ==
    /\ pc \in {"connect", "create_schema", "load_data", "report", "finally", "done"}
    /\ pc # "done" => Steps("disconnect") = {}
    /\ pc = "finally" => ENABLED MainDisconnect
    /\ pc = "done" =>
          /\ Steps("disconnect") = {Len(runlog)}
          /\ lastOp = "disconnect"
          /\ connection # "open"
          /\ (\E i \in Steps("connect") : runlog[i].err = "") => connection = "closed"

C9_Witness ==
    /\ pc = "done"
    /\ connection = "closed"
    /\ \E i \in Steps("create_schema") : runlog[i].err # ""
    /\ Len(runlog) = 3

RoomCountRows(id) == { i \in 1..Len(result) : result[i][1] = IntValue(id) }
StudentsOf(t, id) == { s \in DOMAIN t.students : t.students[s].room_id = id }

\* C10: the room student count has exactly one row per stored room, rooms
\* without students included, with the room's id and name and the number of
\* students stored with that room id; nothing limits the number of rows
C10_RoomStudentCount ==
    (lastOp = ReportName(1) /\ ops[1].st = "ok") =>
        /\ Len(result) = Cardinality(DOMAIN working.rooms)
        /\ \A id \in DOMAIN working.rooms :
              /\ Cardinality(RoomCountRows(id)) = 1
              /\ \A i \in RoomCountRows(id) :
                    result[i] = <<IntValue(id), StrValue(working.rooms[id]),
                                  IntValue(Cardinality(StudentsOf(working, id)))>>

C10_Witness ==
    /\ lastOp = ReportName(1)
    /\ ops[1].st = "ok"
    /\ Len(result) = 2
    /\ \E i \in 1..Len(result) : result[i][3] = IntValue(0)
    /\ \E i \in 1..Len(result) : result[i][3] = IntValue(2)

\* ------------------------------------------------------------ the reports
\* completed calendar years from d1 to a later d2: the difference of the year
\* fields, less one when d2's (month, day) precedes d1's
CompletedYears(d2, d1) ==
    d2[1] - d1[1] - (IF d2[2] < d1[2] \/ (d2[2] = d1[2] /\ d2[3] < d1[3]) THEN 1 ELSE 0)

Occupied == { id \in DOMAIN working.rooms : StudentsOf(working, id) # {} }
Headcount(id) == Cardinality(StudentsOf(working, id))

RECURSIVE AgeTotalOf(_)
AgeTotalOf(ids) ==
    IF ids = {} THEN 0
    ELSE LET s == CHOOSE x \in ids : TRUE
         IN  CompletedYears(today, working.students[s].birthday) + AgeTotalOf(ids \ {s})
\* the sum of the ages, in completed years today, of the students of a room
AgeTotal(id) == AgeTotalOf(StudentsOf(working, id))

\* the mean age of room a is not higher than the mean age of room b
MeanNotHigher(a, b) == AgeTotal(a) * Headcount(b) <= AgeTotal(b) * Headcount(a)
\* h hundredths is the mean age of room id rounded to two decimals, halves upwards
IsRoundedMean(h, id) ==
    /\ 2 * h * Headcount(id) <= 200 * AgeTotal(id) + Headcount(id)
    /\ 2 * h * Headcount(id) > 200 * AgeTotal(id) - Headcount(id)
\* the rounded mean age of room id is at least h hundredths
RoundedMeanAtLeast(h, id) == 2 * h * Headcount(id) <= 200 * AgeTotal(id) + Headcount(id)

RowRoom(i) == result[i][1].int
Included == { RowRoom(i) : i \in 1..Len(result) }
Returned2 == lastOp = ReportName(2) /\ lastErr = ""

Precedes(a, b) == a[1] < b[1] \/ (a[1] = b[1] /\ (a[2] < b[2] \/ (a[2] = b[2] /\ a[3] < b[3])))
BirthdaysOf(id) == { working.students[s].birthday : s \in StudentsOf(working, id) }
\* whole years between the birthdays of the oldest and the youngest student of a room
AgeSpread(id) ==
    LET oldest == CHOOSE d \in BirthdaysOf(id) : \A e \in BirthdaysOf(id) : ~Precedes(e, d)
        youngest == CHOOSE d \in BirthdaysOf(id) : \A e \in BirthdaysOf(id) : ~Precedes(d, e)
    IN  CompletedYears(youngest, oldest)
Spread == { id \in Occupied : AgeSpread(id) > 0 }
Returned3 == lastOp = ReportName(3) /\ lastErr = ""

\* C12: the highest age difference report has only rooms whose whole-year
\* difference between the oldest and the youngest student's birthday is
\* greater than 0, each once with its id, name and that difference, at most
\* 5 rows (5 when more rooms qualify), sorted descending by the difference;
\* every qualifying room left out has a difference not greater than that of
\* every room included
C12_HighestAgeDifference ==
    Returned3 =>
        /\ Included \subseteq Spread
        /\ Len(result) = IF Cardinality(Spread) < 5 THEN Cardinality(Spread) ELSE 5
        /\ \A i, j \in 1..Len(result) : i # j => RowRoom(i) # RowRoom(j)
        /\ \A i \in 1..Len(result) :
              result[i] = <<IntValue(RowRoom(i)), StrValue(working.rooms[RowRoom(i)]),
                            IntValue(AgeSpread(RowRoom(i)))>>
        /\ \A i, j \in 1..Len(result) : i < j => result[i][3].int >= result[j][3].int
        /\ \A id \in Spread \ Included :
              \A i \in 1..Len(result) : AgeSpread(id) <= result[i][3].int

C12_Witness ==
    /\ Returned3
    /\ Cardinality(Spread) = 6
    /\ Len(result) = 5
    /\ result[1][3] # result[5][3]

\* a room with one student, and a room whose two students were born in
\* different years less than a year apart, are stored and not in the report
C12_WitnessExcluded ==
    /\ Returned3
    /\ Len(result) = 1
    /\ \E id \in Occupied \ Included : Headcount(id) = 1
    /\ \E id \in Occupied \ Included :
          Headcount(id) = 2 /\ \E a, b \in BirthdaysOf(id) : a[1] # b[1]

SexCodes(id) == { working.students[s].sex : s \in StudentsOf(working, id) }
Mixed == { id \in DOMAIN working.rooms : Cardinality(SexCodes(id)) > 1 }
Returned4 == lastOp = ReportName(4) /\ lastErr = ""

\* C14: the mixed-sex report contains a room if and only if its stored
\* students have more than one distinct sex code; each such room appears
\* exactly once, with its id and name, and no limit is applied
C14_MixedSexRooms ==
    Returned4 =>
        /\ Included = Mixed
        /\ Len(result) = Cardinality(Mixed)
        /\ \A i \in 1..Len(result) :
              result[i] = <<IntValue(RowRoom(i)), StrValue(working.rooms[RowRoom(i)])>>

C14_Witness ==
    /\ Returned4
    /\ Len(result) = 6

\* a room without students and rooms with one or two students of one sex
\* are stored beside a mixed room, and only the mixed room is in the report
C14_WitnessExcluded ==
    /\ Returned4
    /\ Len(result) = 1
    /\ \E id \in DOMAIN working.rooms : Headcount(id) = 0
    /\ \E id \in DOMAIN working.rooms : Headcount(id) = 2 /\ Cardinality(SexCodes(id)) = 1

\* ------------------------------------------------------- reading output
\* the text between characters a and b, "" when there is none
Text(t, a, b) == IF a > b \/ a < 1 \/ b > Len(t) THEN "" ELSE SubSeq(t, a, b)
Char(t, i) == Text(t, i, i)
EndsWith(t, x) == Len(t) >= Len(x) /\ Text(t, Len(t) - Len(x) + 1, Len(t)) = x
StartsWith(t, x) == Len(t) >= Len(x) /\ Text(t, 1, Len(x)) = x
\* where x first occurs in t, 0 when it does not
Find(t, x) ==
    LET at == { i \in 1..Len(t) : Text(t, i, i + Len(x) - 1) = x }
    IN  IF at = {} THEN 0 ELSE CHOOSE i \in at : \A j \in at : i <= j

RECURSIVE SplitAt(_, _, _)
SplitAt(t, breaks, from) ==
    IF breaks = {} THEN (IF from > Len(t) THEN <<>> ELSE <<Text(t, from, Len(t))>>)
    ELSE LET b == CHOOSE x \in breaks : \A y \in breaks : x <= y
         IN  <<Text(t, from, b - 1)>> \o SplitAt(t, breaks \ {b}, b + 1)
\* the lines of a text
Lines(t) == SplitAt(t, { i \in 1..Len(t) : Char(t, i) = "\n" }, 1)

\* the k-th smallest member of a set of numbers
Nth(S, k) == CHOOSE x \in S : Cardinality({ y \in S : y < x }) = k - 1

IsDigit(c) == \E d \in 0..9 : DigitChars[d + 1] = c
DigitOf(c) == CHOOSE d \in 0..9 : DigitChars[d + 1] = c
RECURSIVE NatOf(_)
NatOf(x) ==
    IF Len(x) = 0 THEN 0
    ELSE 10 * NatOf(Text(x, 1, Len(x) - 1)) + DigitOf(Char(x, Len(x)))
IsNat(x) == Len(x) > 0 /\ \A i \in 1..Len(x) : IsDigit(Char(x, i))

\* a number literal: an integer, or a number with one or two decimals, which
\* reads as a floating number (kept in hundredths)
IsNumber(x) ==
    LET body == IF StartsWith(x, "-") THEN Text(x, 2, Len(x)) ELSE x
        dot == Find(body, ".")
    IN  IF dot = 0 THEN IsNat(body)
        ELSE /\ IsNat(Text(body, 1, dot - 1))
             /\ IsNat(Text(body, dot + 1, Len(body)))
             /\ Len(body) - dot <= 2
NumberOf(x) ==
    LET neg == StartsWith(x, "-")
        body == IF neg THEN Text(x, 2, Len(x)) ELSE x
        dot == Find(body, ".")
        frac == Text(body, dot + 1, Len(body))
        h == 100 * NatOf(Text(body, 1, dot - 1)) +
             (IF Len(frac) = 1 THEN 10 * NatOf(frac) ELSE NatOf(frac))
    IN  IF dot = 0 THEN IntValue(IF neg THEN 0 - NatOf(body) ELSE NatOf(body))
        ELSE FloatValue(IF neg THEN 0 - h ELSE h)

\* a JSON scalar: a string in quotes, or a number
JsonScalar(x) ==
    IF StartsWith(x, "\"") /\ EndsWith(x, "\"") /\ Len(x) >= 2
    THEN StrValue(Text(x, 2, Len(x) - 1))
    ELSE NumberOf(x)

\* one member line of an object: four spaces, "key": value, and a comma
\* unless it is the object's last
JsonMember(line) ==
    LET t == IF EndsWith(line, ",") THEN Text(line, 1, Len(line) - 1) ELSE line
        sep == Find(t, "\": ")
    IN  [key |-> Text(t, 6, sep - 1), value |-> JsonScalar(Text(t, sep + 3, Len(t)))]

\* json.loads of an array of flat objects written one member a line: the
\* objects in order, each the sequence of its members in order
ParseJson(t) ==
    LET L == Lines(t)
        opens == { i \in 1..Len(L) : L[i] = "  {" }
        closes == { i \in 1..Len(L) : L[i] \in {"  }", "  },"} }
    IN  [k \in 1..Cardinality(opens) |->
            [m \in 1..(Nth(closes, k) - Nth(opens, k) - 1) |-> JsonMember(L[Nth(opens, k) + m])]]

\* the text is such an array: brackets around objects separated by commas,
\* members separated by commas, every value a string or a number
IsJsonArray(t) ==
    LET L == Lines(t)
        opens == { i \in 1..Len(L) : L[i] = "  {" }
        closes == { i \in 1..Len(L) : L[i] \in {"  }", "  },"} }
        last == IF closes = {} THEN 0 ELSE Nth(closes, Cardinality(closes))
    IN  \/ t = "[]"
        \/ /\ Len(L) >= 3
           /\ L[1] = "["
           /\ L[Len(L)] = "]"
           /\ Cardinality(opens) = Cardinality(closes)
           /\ last = Len(L) - 1
           /\ \A i \in closes : (L[i] = "  }") <=> (i = last)
           /\ \A i \in 2..(Len(L) - 1) :
                 \/ i \in opens
                 \/ i \in closes
                 \/ /\ StartsWith(L[i], "    \"")
                    /\ Find(L[i], "\": ") > 6
                    /\ EndsWith(L[i], ",") <=> (i + 1) \notin closes
                    /\ LET t2 == IF EndsWith(L[i], ",") THEN Text(L[i], 1, Len(L[i]) - 1)
                                 ELSE L[i]
                           v == Text(t2, Find(t2, "\": ") + 3, Len(t2))
                       IN  (StartsWith(v, "\"") /\ EndsWith(v, "\"") /\ Len(v) >= 2) \/ IsNumber(v)

\* one field line of a record: <key>text</key>, or <key/> for an empty text
XmlField(line) ==
    LET t == Text(line, 5, Len(line))
        gt == Find(t, ">")
    IN  IF EndsWith(t, "/>") THEN [key |-> Text(t, 2, Len(t) - 2), text |-> ""]
        ELSE [key |-> Text(t, 2, gt - 1),
              text |-> Text(t, gt + 1, Len(t) - (gt + 1))]

\* the records of a pretty-printed <results> document, in order, each the
\* sequence of its fields in order
ParseXml(t) ==
    LET L == Lines(t)
        opens == { i \in 1..Len(L) : L[i] = "  <record>" }
        closes == { i \in 1..Len(L) : L[i] = "  </record>" }
    IN  [k \in 1..Cardinality(opens) |->
            [m \in 1..(Nth(closes, k) - Nth(opens, k) - 1) |-> XmlField(L[Nth(opens, k) + m])]]

\* the text is an XML declaration and one results element that holds record
\* elements only, each holding fields only
IsResultsDocument(t) ==
    LET L == Lines(t)
        opens == { i \in 1..Len(L) : L[i] = "  <record>" }
        closes == { i \in 1..Len(L) : L[i] = "  </record>" }
    IN  /\ Len(L) >= 2
        /\ L[1] = "<?xml version=\"1.0\" ?>"
        /\ \/ Len(L) = 2 /\ L[2] \in {"<results/>", "<results></results>"}
           \/ /\ L[2] = "<results>"
              /\ L[Len(L)] = "</results>"
              /\ Cardinality(opens) = Cardinality(closes)
              /\ \A i \in 3..(Len(L) - 1) :
                    \/ i \in opens
                    \/ i \in closes
                    \/ /\ StartsWith(L[i], "    <")
                       /\ LET f == XmlField(L[i])
                          IN  \/ EndsWith(L[i], "/>")
                              \/ EndsWith(L[i], "</" \o f.key \o ">")

Columns == ReportColumns(q)
\* a value as it reads after a round trip: a Decimal has become a floating number
Read(v) == IF DOMAIN v = {"decimal"} THEN FloatValue(v.decimal) ELSE v
\* what the text of an XML field says of a value
XmlReads(text, v) ==
    IF DOMAIN v = {"str"} THEN text = v.str
    ELSE IsNumber(text) /\ NumberOf(text) = Read(v)

\* C16: formatting any rows with as many values as there are column names
\* gives one record per row in row order, each with the column names in order
\* and that row's values; the JSON output parses back to exactly that list of
\* mappings, integers as integers, strings as strings and decimals as
\* floating numbers
C16_RoundTrip ==
    lastOp = "_format_output" =>
        /\ format = "json" =>
              /\ IsJsonArray(output)
              /\ ParseJson(output) =
                    [i \in 1..Len(result) |->
                        [k \in 1..Len(Columns) |->
                            [key |-> Columns[k], value |-> Read(result[i][k])]]]
        /\ format = "xml" =>
              /\ IsResultsDocument(output)
              /\ Len(ParseXml(output)) = Len(result)
              /\ \A i \in 1..Len(result) :
                    /\ Len(ParseXml(output)[i]) = Len(Columns)
                    /\ \A k \in 1..Len(Columns) :
                          /\ ParseXml(output)[i][k].key = Columns[k]
                          /\ XmlReads(ParseXml(output)[i][k].text, result[i][k])

C16_Witness ==
    /\ lastOp = "_format_output"
    /\ format = "json"
    /\ Len(result) = 2
    /\ result[1] = <<IntValue(12), StrValue("Room B"), Decimal(2400)>>
    /\ result[2] = <<IntValue(0), StrValue(""), Decimal(2433)>>
    /\ ParseJson(output)[1][3].value = FloatValue(2400)

\* load_data has returned and the tables are empty: in a run of main, which
\* starts on empty storage, that is after loading two empty arrays
EmptyLoaded ==
    /\ \E i \in Steps("load_data") : runlog[i].err = ""
    /\ working = EmptyTables
    /\ committed = EmptyTables

\* C15: after load_data of two empty arrays into empty storage both tables
\* are empty; then every report whose query the server runs returns no rows
\* and raises nothing, and the formatter renders them as [] in JSON mode and
\* as a document whose results element is empty in XML mode, which is what is
\* written to the report's file
C15_EmptyInput ==
    /\ (lastOp = "load_data" /\ lastErr = "" /\ Len(ops) = 1) =>
          committed = EmptyTables /\ working = EmptyTables
    /\ (EmptyLoaded /\ lastOp \in Reports /\ ops[1].st = "ok") =>
          /\ result = <<>>
          /\ lastErr \in {"", "OSError"}
          /\ format = "json" => output = "[]" /\ ParseJson(output) = <<>>
          /\ format = "xml" => IsResultsDocument(output) /\ ParseXml(output) = <<>>
          /\ lastErr = "" =>
                /\ (lastOp \o "." \o format) \in DOMAIN files
                /\ files[lastOp \o "." \o format] = output

C15_Witness ==
    /\ EmptyLoaded
    /\ lastOp = ReportName(NumReports)
    /\ format = "xml"
    /\ result = <<>>
    /\ Cardinality(DOMAIN files) = NumReports
    /\ \A f \in DOMAIN files : files[f] = "<?xml version=\"1.0\" ?>\n<results/>\n"

\* C17: the storage operations a successful load_data issued are, in this
\* order, one insert per room record in the order of the rooms array, one
\* insert per student record in the order of the students array, and one
\* commit: no student insert before a room insert, no commit before the last insert
C17_LoadOrder ==
    (lastOp = "load_data" /\ lastErr = "") =>
        /\ Len(ops) = Len(RoomsData) + Len(StudentsData) + 1
        /\ \A i \in 1..Len(RoomsData) : ops[i].op = "insert_room" /\ ops[i].n = i
        /\ \A i \in 1..Len(StudentsData) :
              /\ ops[Len(RoomsData) + i].op = "insert_student"
              /\ ops[Len(RoomsData) + i].n = i
        /\ ops[Len(ops)].op = "commit"

C17_Witness ==
    /\ lastOp = "load_data"
    /\ lastErr = ""
    /\ calls = 1
    /\ Len(RoomsData) = 2
    /\ Len(StudentsData) = 2
    /\ \A i \in 1..4 : ops[i].st = "inserted"
    /\ ops[5].st = "committed"

====
